---- MODULE Spec2Model ----
(***************************************************************************)
(* Beurer BF 915 integration: the device object of bluetooth.py.           *)
(*                                                                         *)
(*   - the measurement store  self._measurements  (user id -> snapshot),   *)
(*   - the frame decoder      _process_notification,                       *)
(*   - the link session       _connect_and_read,                           *)
(*   - the update cycle       async_update  with its  _is_scanning  flag.  *)
(*                                                                         *)
(* Units.  Every value the code keeps as a float rounded to one decimal    *)
(* (weight, body_fat, water, muscle, bone_mass, bmi) is kept here as the   *)
(* integer number of tenths: 55.6 kg is 556.  A raw little-endian u16 `r`  *)
(* decoded as round(r / 10.0, 1) is therefore `r` itself.                  *)
(*                                                                         *)
(* Time.  datetime.now() is a logical clock that advances by one at every  *)
(* call made after construction; construction itself happens at time 0.    *)
(*                                                                         *)
(* Offsets.  Frames are sequences of bytes; the code's 0-based offset k is *)
(* element k+1 of the sequence (see Byte).                                 *)
(***************************************************************************)
EXTENDS Integers, Sequences, FiniteSets, TLC

VARIABLES
    measurements,         \* self._measurements : user id -> snapshot
    is_scanning,          \* self._is_scanning
    notification_buffer,  \* self._notification_buffer
    clock,                \* number of datetime.now() calls since construction
    data,                 \* argument of the latest _process_notification call
    pc,                   \* per caller: the await at which its async_update is suspended
    client,               \* per caller: the BleakClient of its session (is_connected, handler registered)
    pending,              \* per caller: exception travelling through the finally of _connect_and_read
    qi,                   \* per caller: index in the roster of the query being written
    calls,                \* per caller: number of async_update invocations made
    result,               \* per caller: how its latest invocation ended
    skipped,              \* per caller: its latest invocation took the 'already scanning' exit
    leaked,               \* a returned session left its link up with the handler registered
    delivered,            \* notifications delivered by the scale so far
    decodes,              \* history, per delivered notification: times decoded, and whether it
                          \*   was delivered before the latest session set up its handler (stale)
    ops,                  \* history: link operations started by the latest cycle
    failed,               \* history: steps of the latest cycle that failed
    received,             \* history: notifications received by the handler of the latest cycle
    startStore,           \* history: the store when the latest cycle started
    openAtReturn,         \* history: the latest cycle returned with its link still up
    written               \* history: payloads the latest cycle passed to write_gatt_char, in order

vars == <<measurements, is_scanning, notification_buffer, clock, data, pc, client,
          pending, qi, calls, result, skipped, leaked, delivered, decodes, ops, failed, received,
          startStore, openAtReturn, written>>

sessionVars == <<is_scanning, notification_buffer, pc, client, pending, qi, calls, result,
                 skipped, leaked, delivered, decodes, ops, failed, received, startStore,
                 openAtReturn, written>>

----------------------------------------------------------------------------
(* Bounds of the model.                                                    *)

NumCallers == 2      \* concurrent callers of async_update
MaxCalls == 2        \* invocations of async_update over a whole run
MaxNotifs == 2       \* notifications delivered over a whole run of the session model
MaxDecodes == 2      \* frames decoded over a whole run of the decoder model

Callers == 1..NumCallers

----------------------------------------------------------------------------
(* const.py                                                                *)

USER_PROFILES ==
    (1 :> [name |-> "Pedro",   gender |-> "male",   age |-> 50, height |-> 181]) @@
    (2 :> [name |-> "Sofia",   gender |-> "female", age |-> 53, height |-> 167]) @@
    (3 :> [name |-> "Diogo",   gender |-> "male",   age |-> 21, height |-> 184]) @@
    (4 :> [name |-> "Mariana", gender |-> "female", age |-> 19, height |-> 165])

UserIds == DOMAIN USER_PROFILES

CMD_INIT == <<230, 1>>

----------------------------------------------------------------------------
(* Arithmetic of the store.                                                *)

\* round(x, 1) of the quotient num / den, in tenths: round to nearest.
\* For the four profile heights and every weight in [2.0, 300.0] kg this is
\* the value Python computes, except for the one exact tie (105.8 kg at
\* 184 cm), which no frame of the frame sets below carries.
RoundTenths(num, den) == (2 * 10 * num + den) \div (2 * den)

\* round(weight / (height_m ** 2), 1), weight in tenths of kg, height in cm.
Bmi(weightTenths, heightCm) ==
    RoundTenths(weightTenths * 10000, 10 * heightCm * heightCm)

\* _get_default_measurements
GetDefaultMeasurements(user_id) ==
    LET profile == USER_PROFILES[user_id]
        default_weight == IF profile.gender = "male" THEN 700 ELSE 600
    IN  [timestamp     |-> 0,
         weight        |-> 0,
         body_fat      |-> 0,
         water         |-> 0,
         muscle        |-> 0,
         bone_mass     |-> 0,
         bmi           |-> Bmi(default_weight, profile.height),
         bmr           |-> IF profile.gender = "male" THEN 1500 ELSE 1200,
         amr           |-> IF profile.gender = "male" THEN 2000 ELSE 1600,
         visceral_fat  |-> 0,
         metabolic_age |-> profile.age,
         body_type     |-> "Unknown"]

\* __init__: one default snapshot per profile
InitialMeasurements == [u \in UserIds |-> GetDefaultMeasurements(u)]

----------------------------------------------------------------------------
(* The frame decoder, _process_notification.                               *)

Byte(d, off) == d[off + 1]

\* struct.unpack("<H", d[pos : pos + 2])[0]
U16(d, pos) == Byte(d, pos) + 256 * Byte(d, pos + 1)

\* for pos in [7, 8, 6]
WeightPositionsSwapped == <<8, 7, 6>>

WeightPositions == <<7, 8, 6>>

\* for uid_pos in [2, 3, 1]
UserIdPositionsSwapped == <<3, 2, 1>>

UserIdPositions == <<2, 3, 1>>

\* if len(data) < 10: return
ShortNotificationBelow8(d) == Len(d) < 8

ShortNotification(d) == Len(d) < 10

\* 2.0 <= weight_raw / 10.0 <= 300.0
ValidWeightNoUpper(weight_raw) == 20 <= weight_raw

ValidWeight(weight_raw) == 20 <= weight_raw /\ weight_raw <= 3000

\* the guard of one iteration of the weight loop
WeightAt(d, pos) == pos + 2 <= Len(d) /\ ValidWeight(U16(d, pos))

\* the position at which the weight loop breaks, -1 when it runs to its end
AcceptedPos(d) ==
    IF \E i \in 1..Len(WeightPositions) : WeightAt(d, WeightPositions[i])
    THEN LET i == CHOOSE i \in 1..Len(WeightPositions) :
                    /\ WeightAt(d, WeightPositions[i])
                    /\ \A j \in 1..(i - 1) : ~WeightAt(d, WeightPositions[j])
         IN  WeightPositions[i]
    ELSE -1

\* the guard of one iteration of the user-id loop
UserIdAt(d, uid_pos) == uid_pos < Len(d) /\ Byte(d, uid_pos) \in UserIds

\* the user-id loop, followed by `if not user_id: user_id = 1`
UserId(d) ==
    IF \E i \in 1..Len(UserIdPositions) : UserIdAt(d, UserIdPositions[i])
    THEN LET i == CHOOSE i \in 1..Len(UserIdPositions) :
                    /\ UserIdAt(d, UserIdPositions[i])
                    /\ \A j \in 1..(i - 1) : ~UserIdAt(d, UserIdPositions[j])
         IN  Byte(d, UserIdPositions[i])
    ELSE 1

\* the two assignments that follow the attribution: weight and timestamp
StampWeightKeepTime(snap, weight_raw, now) == [snap EXCEPT !.weight = weight_raw]

StampWeightAveraging(snap, weight_raw, now) ==
    [snap EXCEPT !.weight = (@ + weight_raw) \div 2, !.timestamp = now]

StampWeight(snap, weight_raw, now) ==
    [snap EXCEPT !.weight = weight_raw, !.timestamp = now]

\* round(unpack(d[a:a+2]) / 10.0, 1) if d[a:a+2] != b"\xff\xff" else 0.0
ExtField(d, a) == IF U16(d, a) = 65535 THEN 0 ELSE U16(d, a)

\* the block under `if len(data) >= 20`
Extended(snap, d, weight_raw, user_id) ==
    [snap EXCEPT !.body_fat  = ExtField(d, 9),
                 !.water     = ExtField(d, 11),
                 !.muscle    = ExtField(d, 13),
                 !.bone_mass = ExtField(d, 15),
                 !.bmi       = Bmi(weight_raw, USER_PROFILES[user_id].height)]

\* _process_notification(data), called at time `now`, on store m
ProcessNotification(m, d, now) ==
    IF ShortNotification(d) THEN m
    ELSE LET pos == AcceptedPos(d) IN
         IF pos = -1 THEN m
         ELSE LET user_id == UserId(d)
                  weight_raw == U16(d, pos)
                  m1 == [m EXCEPT ![user_id] = StampWeight(@, weight_raw, now)]
              IN  IF Len(d) >= 20
                  THEN [m1 EXCEPT ![user_id] = Extended(@, d, weight_raw, user_id)]
                  ELSE m1

----------------------------------------------------------------------------
(* Frames the scale may send.  A frame is laid out as                      *)
(*   bytes 0..3   identification area (the decoder looks at 2, 3, 1),      *)
(*   bytes 4..8   weight area,                                             *)
(*   bytes 9..16  extended area (body fat, water, muscle, bone mass),      *)
(*   bytes 17..   zero padding,                                            *)
(* and cut to its length.                                                  *)

IdAreas ==
    { <<0, 0, 231, 2>>,     \* E7 at offset 2, id 2 at offset 3
      <<0, 3, 1, 2>>,       \* ids at offsets 1, 2 and 3
      <<0, 3, 231, 0>>,     \* id 3 at offset 1 only
      <<4, 0, 231, 0>> }    \* id 4 at offset 0 only

WeightAreas ==
    { <<0, 0, 0, 44, 2>>,       \* 556 at offset 7
      <<0, 0, 0, 255, 44>>,     \* offset 7 reads 11519; offset 8 depends on byte 9
      <<0, 0, 44, 2, 255>>,     \* 556 at offset 6; offset 7 reads 65282
      <<44, 2, 0, 0, 0>> }      \* 556 at offset 4; offsets 6 and 7 read 0

ExtAreas ==
    { <<255, 255, 255, 255, 255, 255, 255, 255>>,   \* every field FF FF
      <<215, 0, 38, 2, 144, 1, 31, 0>>,             \* 21.5 %, 55.0 %, 40.0 %, 3.1 kg
      <<232, 3, 0, 0, 33, 3, 0, 0>>,                \* 100.0 %, 0.0 %, 80.1 %, 0.0 kg
      <<2, 0, 255, 255, 255, 255, 255, 255>> }      \* 0.2 %, then FF FF

FrameLens == {8, 10, 20}

MkFrame(n, ids, w, x) == SubSeq(ids \o w \o x \o <<0, 0, 0>>, 1, n)

\* 00 00 E7 02 00 00 00 2C 02 FF FF: an 11-byte frame with 556 at offset 7
\* and id 2 at offset 3
ScenarioFrame == <<0, 0, 231, 2, 0, 0, 0, 44, 2, 255, 255>>

Frames == { MkFrame(n, ids, w, x) :
              n \in FrameLens, ids \in IdAreas, w \in WeightAreas, x \in ExtAreas }
          \cup {ScenarioFrame}

\* frames delivered in the session model
SessionFrames ==
    { MkFrame(20, <<0, 0, 231, 2>>, <<0, 0, 0, 44, 2>>, <<215, 0, 38, 2, 144, 1, 31, 0>>),
      MkFrame(10, <<0, 3, 231, 0>>, <<0, 0, 44, 2, 255>>, <<2, 0, 255, 255, 255, 255, 255, 255>>) }

----------------------------------------------------------------------------
(* Initial state: the device object after __init__.                        *)

Init ==
    /\ measurements = InitialMeasurements
    /\ is_scanning = FALSE
    /\ notification_buffer = <<>>
    /\ clock = 0
    /\ data = <<>>
    /\ pc = [t \in Callers |-> "idle"]
    /\ client = [t \in Callers |-> [connected |-> FALSE, notifying |-> FALSE]]
    /\ pending = [t \in Callers |-> "none"]
    /\ qi = [t \in Callers |-> 0]
    /\ calls = [t \in Callers |-> 0]
    /\ result = [t \in Callers |-> "none"]
    /\ skipped = [t \in Callers |-> FALSE]
    /\ leaked = FALSE
    /\ delivered = 0
    /\ decodes = <<>>
    /\ ops = {}
    /\ failed = {}
    /\ received = 0
    /\ startStore = InitialMeasurements
    /\ openAtReturn = FALSE
    /\ written = <<>>

----------------------------------------------------------------------------
(* The decoder model: frames are decoded one after the other.              *)

Decode(f) ==
    /\ clock < MaxDecodes
    /\ data' = f
    /\ clock' = clock + 1
    /\ measurements' = ProcessNotification(measurements, f, clock + 1)
    /\ UNCHANGED sessionVars

DecNext == \E f \in Frames : Decode(f)

DecSpec == Init /\ [][DecNext]_vars

----------------------------------------------------------------------------
(* The update cycle and the link session.  Python's event loop runs a      *)
(* coroutine without interruption from one await to the next, so each      *)
(* action below is the code between two awaits of one caller: it starts    *)
(* when the awaited link operation completes, with the outcome given as    *)
(* the action's input, and ends at the next await or at the return.        *)
(* Exceptions are "none" or "error" (any subclass of Exception).           *)

\* for user_id, profile in USER_PROFILES.items()
RosterReversed == <<4, 3, 2, 1>>

Roster == <<1, 2, 3, 4>>

\* command = bytes([0xE7, 0x41]) + struct.pack("BBBBBBBB", user_id, gender_byte,
\*     profile["age"], profile["height"], 0x03, 0x00, 0x00, 0x00)
QueryCommandHeightFirst(user_id) ==
    LET profile == USER_PROFILES[user_id]
        gender_byte == IF profile.gender = "male" THEN 1 ELSE 0
    IN  <<231, 65, user_id, gender_byte, profile.height, profile.age, 3, 0, 0, 0>>

QueryCommand(user_id) ==
    LET profile == USER_PROFILES[user_id]
        gender_byte == IF profile.gender = "male" THEN 1 ELSE 0
    IN  <<231, 65, user_id, gender_byte, profile.age, profile.height, 3, 0, 0, 0>>

FreshClient == [connected |-> FALSE, notifying |-> FALSE]

\* `await client.start_notify(CHARACTERISTIC_UUID, notification_handler)` has
\* completed on client c: the handler is registered
HandlerNotRegistered(c) == c

HandlerRegistered(c) == [c EXCEPT !.notifying = TRUE]

\* `self._notification_buffer = []`
StaleBuffer(old) == old

FreshBuffer(old) == <<>>

\* `if self._is_scanning:` at the top of async_update
NeverScanning(flag) == FALSE

AlreadyScanning(flag) == flag

\* `except Exception as e:` of async_update: logs, nothing is re-raised
UpdateErrorPropagates(e) == e

UpdateErrorHandler(e) == "none"

\* `finally: self._is_scanning = False` of async_update
FlagClearedOnSuccessOnly(e) == e # "none"

FlagAfterCycle(e) == FALSE

\* `except Exception as e:` of _connect_and_read: logs, nothing is re-raised
ConnectionErrorHandler(e) == "none"

\* `finally: if client.is_connected: await client.disconnect()`
DisconnectOnSuccessOnly(connected, e) == connected /\ e = "none"

DisconnectOnErrorOnly(connected, e) == connected /\ e # "none"

FinallyDisconnect(connected, e) == connected

\* notification_handler(sender, data): appends to the buffer, nothing else
NotificationHandlerDecoding(buffer, m, now, d) ==
    [buffer |-> Append(buffer, d),
     store  |-> ProcessNotification(m, d, now + 1),
     clock  |-> now + 1]

NotificationHandler(buffer, m, now, d) ==
    [buffer |-> Append(buffer, d), store |-> m, clock |-> now]

\* for data in self._notification_buffer: self._process_notification(data)
RECURSIVE ProcessBufferNewestFirst(_, _, _)
ProcessBufferNewestFirst(m, buffer, now) ==
    IF buffer = <<>> THEN m
    ELSE ProcessBufferNewestFirst(ProcessNotification(m, buffer[Len(buffer)], now + 1),
                                  SubSeq(buffer, 1, Len(buffer) - 1), now + 1)

RECURSIVE ProcessBuffer(_, _, _)
ProcessBuffer(m, buffer, now) ==
    IF buffer = <<>> THEN m
    ELSE ProcessBuffer(ProcessNotification(m, Head(buffer), now + 1), Tail(buffer), now + 1)

\* `return self._measurements`: the caller receives the mapping object of the
\* device itself, not a copy.  A holder of the value returned when the store
\* was `returned` reads, once the store is `current`, the current store.
ReturnedMapping(returned, current) == current

\* async_update from its except/finally clauses to `return self._measurements`,
\* with exception e raised in its try block
UpdateExit(t, e) ==
    /\ pc' = [pc EXCEPT ![t] = "idle"]
    /\ is_scanning' = FlagAfterCycle(e)
    /\ result' = [result EXCEPT ![t] =
                     IF UpdateErrorHandler(e) = "none" THEN "returned" ELSE "raised"]

\* _connect_and_read returns to async_update with exception e in flight; its
\* local client c goes out of scope, and a link still up stays up
Return(t, e, c) ==
    /\ client' = [client EXCEPT ![t] = FreshClient]
    /\ leaked' = (leaked \/ (c.connected /\ c.notifying))
    /\ openAtReturn' = c.connected
    /\ pending' = [pending EXCEPT ![t] = "none"]
    /\ qi' = [qi EXCEPT ![t] = 0]
    /\ UpdateExit(t, ConnectionErrorHandler(e))

\* _connect_and_read from its finally clause on, with exception e in flight
\* and the client in state c; opsNow are the operations started so far
Leave(t, e, c, opsNow) ==
    IF FinallyDisconnect(c.connected, e)
    THEN /\ pc' = [pc EXCEPT ![t] = "disconnect"]
         /\ pending' = [pending EXCEPT ![t] = e]
         /\ client' = [client EXCEPT ![t] = c]
         /\ ops' = opsNow \cup {"disconnect"}
         /\ UNCHANGED <<is_scanning, result, leaked, qi, openAtReturn>>
    ELSE /\ ops' = opsNow
         /\ Return(t, e, c)

RECURSIVE CallsUpTo(_)
CallsUpTo(n) == IF n = 0 THEN 0 ELSE calls[n] + CallsUpTo(n - 1)

\* async_update is called: the flag test, the import of bleak, BleakScanner(),
\* up to `await scanner.discover()`.  Callers are interchangeable, so they
\* are numbered in the order of their first invocation.
Invoke(t, env) ==
    /\ pc[t] = "idle"
    /\ CallsUpTo(NumCallers) < MaxCalls
    /\ \A earlier \in 1..(t - 1) : calls[earlier] > 0
    /\ calls' = [calls EXCEPT ![t] = @ + 1]
    /\ skipped' = [skipped EXCEPT ![t] = AlreadyScanning(is_scanning)]
    /\ IF AlreadyScanning(is_scanning)
       THEN /\ result' = [result EXCEPT ![t] = "returned"]
            /\ UNCHANGED <<pc, is_scanning, ops, failed, received, startStore,
                           openAtReturn, written>>
       ELSE /\ failed' = IF env = "ok" THEN {} ELSE {env}
            /\ written' = <<>>
            /\ openAtReturn' = FALSE
            /\ received' = 0
            /\ startStore' = measurements
            /\ CASE env = "ok" ->
                    /\ is_scanning' = TRUE
                    /\ pc' = [pc EXCEPT ![t] = "scan"]
                    /\ ops' = {"scan"}
                    /\ result' = [result EXCEPT ![t] = "none"]
                 [] env = "import_error" ->
                    /\ ops' = {}
                    /\ UpdateExit(t, "none")
                 [] env = "scanner_error" ->
                    /\ ops' = {}
                    /\ UpdateExit(t, "error")
    /\ UNCHANGED <<measurements, notification_buffer, clock, data, client, pending, qi,
                   leaked, delivered, decodes>>

\* scanner.discover() completes; on a hit, BleakClient(...) up to `await client.connect()`
ScanDone(t, outcome) ==
    /\ pc[t] = "scan"
    /\ IF outcome = "found"
       THEN /\ pc' = [pc EXCEPT ![t] = "connect"]
            /\ ops' = ops \cup {"connect"}
            /\ UNCHANGED <<is_scanning, result, failed>>
       ELSE /\ failed' = failed \cup {"scan"}
            /\ UpdateExit(t, "none")
            /\ UNCHANGED ops
    /\ UNCHANGED <<measurements, notification_buffer, clock, data, client, pending, qi,
                   calls, skipped, leaked, delivered, decodes, received, startStore, openAtReturn,
                   written>>

\* client.connect() completes; service lookup, buffer reset, up to `await client.start_notify()`
ConnectDone(t, outcome, lookup) ==
    /\ pc[t] = "connect"
    /\ CASE outcome = "connected" /\ lookup = "ok" ->
                /\ client' = [client EXCEPT ![t].connected = TRUE]
                /\ notification_buffer' = FreshBuffer(notification_buffer)
                /\ decodes' = [i \in DOMAIN decodes |-> [decodes[i] EXCEPT !.stale = TRUE]]
                /\ pc' = [pc EXCEPT ![t] = "start_notify"]
                /\ ops' = ops \cup {"subscribe"}
                /\ UNCHANGED <<failed, pending, is_scanning, result, leaked, qi, openAtReturn>>
         [] outcome = "connected" /\ lookup # "ok" ->
                /\ failed' = failed \cup {"lookup"}
                /\ Leave(t, "none", [client[t] EXCEPT !.connected = TRUE], ops)
                /\ UNCHANGED <<notification_buffer, decodes>>
         [] outcome = "falsy_connected" ->
                /\ failed' = failed \cup {"connect"}
                /\ Leave(t, "none", [client[t] EXCEPT !.connected = TRUE], ops)
                /\ UNCHANGED <<notification_buffer, decodes>>
         [] outcome = "falsy" ->
                /\ failed' = failed \cup {"connect"}
                /\ Leave(t, "none", client[t], ops)
                /\ UNCHANGED <<notification_buffer, decodes>>
         [] outcome = "raise" ->
                /\ failed' = failed \cup {"connect"}
                /\ Leave(t, "error", client[t], ops)
                /\ UNCHANGED <<notification_buffer, decodes>>
    /\ UNCHANGED <<measurements, clock, data, calls, skipped, delivered, received,
                   startStore, written>>

\* an awaited link operation of the session failed: "fail" leaves the link
\* up, "lost" means the link is gone; the exception goes to the finally
Abort(t, step, outcome) ==
    /\ outcome \in {"fail", "lost"}
    /\ failed' = failed \cup {step}
    /\ Leave(t, "error",
             [connected |-> outcome = "fail",
              notifying |-> client[t].notifying /\ outcome = "fail"], ops)

\* client.start_notify() completes; up to `await client.write_gatt_char(CMD_INIT)`
StartNotifyDone(t, outcome) ==
    /\ pc[t] = "start_notify"
    /\ IF outcome = "ok"
       THEN /\ client' = [client EXCEPT ![t] = HandlerRegistered(@)]
            /\ pc' = [pc EXCEPT ![t] = "init"]
            /\ ops' = ops \cup {"write"}
            /\ written' = Append(written, CMD_INIT)
            /\ UNCHANGED <<failed, pending, is_scanning, result, leaked, qi, openAtReturn>>
       ELSE /\ Abort(t, "start_notify", outcome)
            /\ UNCHANGED written
    /\ UNCHANGED <<measurements, notification_buffer, clock, data, calls, skipped,
                   delivered, decodes, received, startStore>>

\* the write of CMD_INIT completes; up to `await asyncio.sleep(1)`
InitWriteDone(t, outcome) ==
    /\ pc[t] = "init"
    /\ IF outcome = "ok"
       THEN /\ pc' = [pc EXCEPT ![t] = "init_sleep"]
            /\ UNCHANGED <<client, ops, failed, pending, is_scanning, result, leaked, qi,
                           openAtReturn>>
       ELSE Abort(t, "init_write", outcome)
    /\ UNCHANGED <<measurements, notification_buffer, clock, data, calls, skipped,
                   delivered, decodes, received, startStore, written>>

\* the sleep after the init command ends; the query loop starts, up to the
\* write of the first query
InitSleepDone(t) ==
    /\ pc[t] = "init_sleep"
    /\ pc' = [pc EXCEPT ![t] = "query"]
    /\ qi' = [qi EXCEPT ![t] = 1]
    /\ written' = Append(written, QueryCommand(Roster[1]))
    /\ UNCHANGED <<measurements, is_scanning, notification_buffer, clock, data, client,
                   pending, calls, result, skipped, leaked, delivered, decodes, ops, failed,
                   received, startStore, openAtReturn>>

\* the write of the query for Roster[qi] completes; up to `await asyncio.sleep(1)`
QueryWriteDone(t, outcome) ==
    /\ pc[t] = "query"
    /\ IF outcome = "ok"
       THEN /\ pc' = [pc EXCEPT ![t] = "query_sleep"]
            /\ UNCHANGED <<client, ops, failed, pending, is_scanning, result, leaked, qi,
                           openAtReturn>>
       ELSE Abort(t, "query_write", outcome)
    /\ UNCHANGED <<measurements, notification_buffer, clock, data, calls, skipped,
                   delivered, decodes, received, startStore, written>>

\* the sleep after a query ends: the next query is written, or, after the
\* last one, the buffer is processed, up to `await client.stop_notify()`
QuerySleepDone(t) ==
    /\ pc[t] = "query_sleep"
    /\ IF qi[t] < Len(Roster)
       THEN /\ qi' = [qi EXCEPT ![t] = @ + 1]
            /\ pc' = [pc EXCEPT ![t] = "query"]
            /\ written' = Append(written, QueryCommand(Roster[qi[t] + 1]))
            /\ UNCHANGED <<measurements, clock, data, ops, decodes>>
       ELSE /\ measurements' = ProcessBuffer(measurements, notification_buffer, clock)
            /\ clock' = clock + Len(notification_buffer)
            /\ data' = IF notification_buffer = <<>> THEN data
                       ELSE notification_buffer[Len(notification_buffer)]
            /\ pc' = [pc EXCEPT ![t] = "stop_notify"]
            /\ ops' = ops \cup {"unsubscribe"}
            /\ decodes' = [i \in DOMAIN decodes |->
                              IF i > Len(decodes) - Len(notification_buffer)
                              THEN [decodes[i] EXCEPT !.count = @ + 1]
                              ELSE decodes[i]]
            /\ UNCHANGED <<qi, written>>
    /\ UNCHANGED <<is_scanning, notification_buffer, client, pending, calls, result,
                   skipped, leaked, delivered, failed, received, startStore, openAtReturn>>

\* client.stop_notify() completes; the finally clause follows
StopNotifyDone(t, outcome) ==
    /\ pc[t] = "stop_notify"
    /\ IF outcome = "ok"
       THEN /\ Leave(t, "none", [client[t] EXCEPT !.notifying = FALSE], ops)
            /\ UNCHANGED failed
       ELSE Abort(t, "stop_notify", outcome)
    /\ UNCHANGED <<measurements, notification_buffer, clock, data, calls, skipped,
                   delivered, decodes, received, startStore, written>>

\* client.disconnect() completes inside the finally clause: the exception in
\* flight, or the one disconnect raised, reaches `except Exception`; a failed
\* disconnect leaves the link up ("fail") or down ("lost")
DisconnectDone(t, outcome) ==
    /\ pc[t] = "disconnect"
    /\ failed' = IF outcome = "ok" THEN failed ELSE failed \cup {"disconnect"}
    /\ Return(t, IF outcome = "ok" THEN pending[t] ELSE "error",
              [connected |-> outcome = "fail",
               notifying |-> client[t].notifying /\ outcome = "fail"])
    /\ UNCHANGED <<measurements, notification_buffer, clock, data, calls, skipped,
                   delivered, decodes, ops, received, startStore, written>>

\* the scale sends frame f on the link of caller t's client, whose handler
\* is registered
Notify(t, f) ==
    /\ client[t].connected /\ client[t].notifying
    /\ delivered < MaxNotifs
    /\ delivered' = delivered + 1
    /\ decodes' = Append(decodes, [count |-> 0, stale |-> FALSE])
    /\ LET h == NotificationHandler(notification_buffer, measurements, clock, f)
       IN  /\ notification_buffer' = h.buffer
           /\ measurements' = h.store
           /\ clock' = h.clock
    /\ received' = received + 1
    /\ UNCHANGED <<is_scanning, data, pc, client, pending, qi, calls, result, skipped,
                   leaked, ops, failed, startStore, openAtReturn, written>>

\* the scale sends frame f on a link that a returned session left open with
\* its handler registered
NotifyLeaked(f) ==
    /\ leaked
    /\ delivered < MaxNotifs
    /\ delivered' = delivered + 1
    /\ decodes' = Append(decodes, [count |-> 0, stale |-> FALSE])
    /\ LET h == NotificationHandler(notification_buffer, measurements, clock, f)
       IN  /\ notification_buffer' = h.buffer
           /\ measurements' = h.store
           /\ clock' = h.clock
    /\ UNCHANGED <<is_scanning, data, pc, client, pending, qi, calls, result, skipped,
                   leaked, ops, failed, received, startStore, openAtReturn, written>>

\* the steps of caller t that the event loop and the transport complete
Step(t) ==
    \/ \E outcome \in {"found", "not_found", "timeout", "error"} : ScanDone(t, outcome)
    \/ \E outcome \in {"connected", "falsy_connected", "falsy", "raise"},
          lookup \in {"ok", "no_service", "no_characteristic"} :
              ConnectDone(t, outcome, lookup)
    \/ \E outcome \in {"ok", "fail", "lost"} : StartNotifyDone(t, outcome)
    \/ \E outcome \in {"ok", "fail", "lost"} : InitWriteDone(t, outcome)
    \/ InitSleepDone(t)
    \/ \E outcome \in {"ok", "fail", "lost"} : QueryWriteDone(t, outcome)
    \/ QuerySleepDone(t)
    \/ \E outcome \in {"ok", "fail", "lost"} : StopNotifyDone(t, outcome)
    \/ \E outcome \in {"ok", "fail", "lost"} : DisconnectDone(t, outcome)

Next ==
    \/ \E t \in Callers, env \in {"ok", "import_error", "scanner_error"} : Invoke(t, env)
    \/ \E t \in Callers : Step(t)
    \/ \E t \in Callers, f \in SessionFrames : Notify(t, f)
    \/ \E f \in SessionFrames : NotifyLeaked(f)

Spec == Init /\ [][Next]_vars

\* every awaited operation terminates: a suspended caller is resumed
FairSpec == Spec /\ \A t \in Callers : WF_vars(Step(t))

----------------------------------------------------------------------------
(* Properties of the update cycle and the link session, checked on Spec    *)
(* (C5 on FairSpec).                                                       *)

InProgress(t) == pc[t] # "idle"

\* caller t's invocation of async_update returns in this step
Returns(t) == pc'[t] = "idle" /\ (pc[t] # "idle" \/ calls'[t] # calls[t])

\* failures that abort a cycle before the buffered frames are processed
EarlySteps == {"import_error", "scanner_error", "scan", "connect", "lookup",
               "start_notify", "init_write", "query_write"}

\* C1: at most one caller is inside a cycle (scan, connect, exchange) at any
\* time, and an invocation made while the flag is set returns the store at
\* once: it starts no link operation and changes nothing but its own result.
C1_SingleFlight ==
    /\ [](Cardinality({t \in Callers : InProgress(t)}) <= 1)
    /\ [][ \A t \in Callers :
              (calls'[t] # calls[t] /\ is_scanning)
              => /\ skipped'[t]
                 /\ result'[t] = "returned"
                 /\ UNCHANGED <<measurements, is_scanning, notification_buffer, clock, pc,
                                client, pending, qi, leaked, delivered, decodes, ops, failed,
                                received, startStore, openAtReturn, written>>
         ]_vars

\* a caller was turned away while the other caller's session was writing queries
C1_Witness ==
    \E t \in Callers : \E t2 \in Callers \ {t} :
        /\ skipped[t] /\ result[t] = "returned" /\ pc[t] = "idle"
        /\ pc[t2] = "query_sleep" /\ "write" \in ops

\* C2: no invocation of async_update ends by raising; an invocation that has
\* ended has returned the measurement mapping, whichever step failed.
C2_NeverRaises ==
    \A t \in Callers :
        /\ result[t] # "raised"
        /\ (pc[t] = "idle" /\ calls[t] > 0) => result[t] = "returned"

\* a cycle in which both stop_notify and disconnect raised has returned
C2_Witness ==
    \E t \in Callers :
        /\ pc[t] = "idle" /\ ~skipped[t] /\ result[t] = "returned"
        /\ failed = {"stop_notify", "disconnect"}

\* C3 as stated: a cycle in which any step failed returns the store it
\* started with.
C3_StoreUnchangedOnAnyFailure ==
    [][ \A t \in Callers :
            (Returns(t) /\ ~skipped'[t] /\ failed' # {})
            => measurements' = startStore' ]_vars

\* C3 as amended: a cycle in which a step before the processing of the
\* buffer failed (scan, connect, lookup, start_notify, a write) returns the
\* store it started with, even if its handler had received notifications.
C3_StoreUnchangedOnEarlyFailure ==
    [][ \A t \in Callers :
            (Returns(t) /\ ~skipped'[t] /\ failed' \cap EarlySteps # {})
            => measurements' = startStore' ]_vars

\* a query write failed after a notification had been received, and the
\* cycle returned the store it started with
C3_Witness ==
    /\ \A t \in Callers : pc[t] = "idle"
    /\ "query_write" \in failed
    /\ received > 0
    /\ notification_buffer # <<>>
    /\ measurements = startStore

C5_FlagCleared ==
    /\ [](is_scanning => \E t \in Callers : InProgress(t))
    /\ [][ \A t \in Callers :
              (calls'[t] # calls[t] /\ skipped'[t])
              => \E t2 \in Callers \ {t} : InProgress(t2) ]_vars
    /\ \A t \in Callers : InProgress(t) ~> (~InProgress(t) /\ ~is_scanning)

\* a caller's first cycle failed (its disconnect raised and left the link
\* up); its second invocation was not skipped and is scanning
C5_Witness ==
    \E t \in Callers :
        /\ calls[t] = 2 /\ ~skipped[t] /\ pc[t] = "scan" /\ is_scanning
        /\ leaked
        /\ \A t2 \in Callers \ {t} : calls[t2] = 0

----------------------------------------------------------------------------
(* Properties of the decoder, checked on DecSpec.  In DecSpec every step   *)
(* is one call of _process_notification, and data' is the decoded frame.   *)

StoreFields == {"body_fat", "water", "muscle", "bone_mass"}

PercentFields == {"body_fat", "water", "muscle"}

\* the decode of frame d writes the weight of user u
WritesWeight(d, u) == Len(d) >= 10 /\ AcceptedPos(d) # -1 /\ UserId(d) = u

\* no offset of the weight loop holds a plausible weight in frame d
NoPlausibleWeight(d) ==
    \A i \in 1..Len(WeightPositions) :
        LET pos == WeightPositions[i]
        IN  ~(pos + 2 <= Len(d) /\ 20 <= U16(d, pos) /\ U16(d, pos) <= 3000)

\* C6: every stored weight is the default 0 or lies in [2.0, 300.0] kg; a
\* weight that a decode changes is the little-endian u16 at one of the
\* candidate offsets of the decoded frame; and a frame without a plausible
\* weight at any candidate offset leaves every user's weight as it was.
C6_WeightInRangeAndSticky ==
    /\ [](\A u \in UserIds :
             measurements[u].weight = 0
             \/ (20 <= measurements[u].weight /\ measurements[u].weight <= 3000))
    /\ [][ /\ \A u \in UserIds :
                measurements'[u].weight # measurements[u].weight
                => \E i \in 1..Len(WeightPositions) :
                      /\ WeightPositions[i] + 2 <= Len(data')
                      /\ measurements'[u].weight = U16(data', WeightPositions[i])
           /\ NoPlausibleWeight(data')
                => \A u \in UserIds : measurements'[u].weight = measurements[u].weight
         ]_vars

\* a weight was set by an earlier frame, and the latest frame (10 bytes or
\* more) had no plausible weight
C6_Witness ==
    /\ Len(data) >= 10
    /\ NoPlausibleWeight(data)
    /\ \E u \in UserIds : measurements[u].weight = 556

\* C7: body_fat, water and muscle of every user are the default 0 or lie in
\* [0.1, 80.0] (the claim as stated).
C7_PercentInRange ==
    \A u \in UserIds : \A f \in PercentFields :
        measurements[u][f] = 0 \/ (1 <= measurements[u][f] /\ measurements[u][f] <= 800)

\* C8: a non-zero body_fat, water, muscle or bone_mass is never reset to zero
\* by a later frame (the claim as stated).
C8_ExtendedSticky ==
    [][ \A u \in UserIds : \A f \in StoreFields :
            measurements[u][f] # 0 => measurements'[u][f] # 0 ]_vars

\* C9: a decode that writes a user's weight leaves that user's bmi equal to
\* weight / height_m^2 of the written weight, whatever the frame length from
\* 10 bytes on (the claim as stated).
C9_BmiFollowsWeight ==
    [][ \A u \in UserIds :
            WritesWeight(data', u)
            => measurements'[u].bmi = Bmi(measurements'[u].weight, USER_PROFILES[u].height)
      ]_vars

\* C10: a decode changes a user's timestamp exactly when it writes that
\* user's weight; in particular no weight changes under an old timestamp.
C10_TimestampIffWeight ==
    [][ \A u \in UserIds :
            /\ (measurements'[u].timestamp # measurements[u].timestamp)
                   <=> WritesWeight(data', u)
            /\ measurements'[u].weight # measurements[u].weight
                   => measurements'[u].timestamp = clock'
      ]_vars

\* two frames were decoded: the first wrote one user's weight, the second
\* wrote another user's weight and refreshed only that user's timestamp
C10_Witness ==
    /\ clock = 2
    /\ \E u \in UserIds :
          /\ WritesWeight(data, u)
          /\ measurements[u].timestamp = 2
          /\ measurements[u].weight # 0
          /\ \E v \in UserIds \ {u} :
                measurements[v].timestamp = 1 /\ measurements[v].weight # 0
          /\ \E v \in UserIds \ {u} :
                measurements[v].timestamp = 0 /\ measurements[v].weight = 0

\* the fields of a snapshot that hold numbers
NumericFields == {"weight", "body_fat", "water", "muscle", "bone_mass", "bmi", "bmr",
                  "amr", "visceral_fat", "metabolic_age"}

\* the step refreshed user u's timestamp, that is, wrote u's weight (C10)
Refreshed(u) == measurements'[u].timestamp # measurements[u].timestamp

\* frame d holds a plausible weight at offset p
PlausibleAt(d, p) == p + 2 <= Len(d) /\ 20 <= U16(d, p) /\ U16(d, p) <= 3000

\* the u16 at the first offset of the list offs that is plausible in frame d,
\* -1 when none is
FirstPlausible(d, offs) ==
    IF \E i \in 1..Len(offs) : PlausibleAt(d, offs[i])
    THEN LET i == CHOOSE i \in 1..Len(offs) :
                    /\ PlausibleAt(d, offs[i])
                    /\ \A j \in 1..(i - 1) : ~PlausibleAt(d, offs[j])
         IN  U16(d, offs[i])
    ELSE -1

\* the byte at the first offset of the list offs that is a configured
\* profile id in frame d, the lowest configured id when none is
FirstProfileId(d, offs) ==
    IF \E i \in 1..Len(offs) : offs[i] < Len(d) /\ d[offs[i] + 1] \in UserIds
    THEN LET i == CHOOSE i \in 1..Len(offs) :
                    /\ offs[i] < Len(d) /\ d[offs[i] + 1] \in UserIds
                    /\ \A j \in 1..(i - 1) : ~(offs[j] < Len(d) /\ d[offs[j] + 1] \in UserIds)
         IN  d[offs[i] + 1]
    ELSE CHOOSE u \in UserIds : \A v \in UserIds : u <= v

\* C11: decoding a buffer shorter than 10 bytes leaves every field of every
\* user, timestamps included, as it was.
C11_ShortFrameIgnored ==
    [][ Len(data') < 10 => measurements' = measurements ]_vars

\* an 8-byte frame that reads 556 at offset 6 was decoded after a frame that
\* had set a weight, and the store still is what that earlier frame left
C11_Witness ==
    /\ clock = 2
    /\ Len(data) = 8
    /\ U16(data, 6) = 556
    /\ \E u \in UserIds :
          measurements[u].weight # 0 /\ measurements[u].timestamp = 1
    /\ \A u \in UserIds : measurements[u].timestamp # 2

\* a frame of 10 bytes or more writes a weight exactly when one of the
\* offsets of offs is plausible, and the weight written is the u16 at the
\* first such offset
WeightFromFirstOf(offs) ==
    Len(data') >= 10
    => IF FirstPlausible(data', offs) = -1
       THEN \A u \in UserIds : ~Refreshed(u)
       ELSE \E u \in UserIds :
               Refreshed(u) /\ measurements'[u].weight = FirstPlausible(data', offs)

\* C12 as stated: the weight is taken from the first plausible offset of
\* 7, 8, 6, 4, 5, 9.
C12_FirstPlausibleOfSix == [][ WeightFromFirstOf(<<7, 8, 6, 4, 5, 9>>) ]_vars

\* C12 as amended: the weight is taken from the first plausible offset of
\* 7, 8, 6; a plausible value at offset 7 is always the decoded weight, and
\* a frame of 10 bytes or more updates a weight exactly when one of these
\* three offsets is plausible.
C12_FirstPlausibleOfThree == [][ WeightFromFirstOf(<<7, 8, 6>>) ]_vars

\* the latest frame is plausible at offset 7 (556) and at offset 8 (514),
\* and the weight stored is the one at offset 7
C12_Witness ==
    /\ Len(data) >= 10
    /\ PlausibleAt(data, 7) /\ PlausibleAt(data, 8)
    /\ U16(data, 7) # U16(data, 8)
    /\ \E u \in UserIds :
          measurements[u].timestamp = clock /\ measurements[u].weight = U16(data, 7)

\* a frame of 10 bytes or more with a plausible weight is attributed to the
\* first profile id found at the offsets of offs, or to the lowest id
AttributedByFirstOf(offs) ==
    (Len(data') >= 10 /\ FirstPlausible(data', <<7, 8, 6>>) # -1)
    => \A u \in UserIds : Refreshed(u) <=> u = FirstProfileId(data', offs)

\* C13 as stated: the reading goes to the first profile id at offsets
\* 2, 3, 1, 0, and to the lowest configured id when there is none.
C13_UserFromFourOffsets == [][ AttributedByFirstOf(<<2, 3, 1, 0>>) ]_vars

\* C13 as amended: the reading goes to the first profile id at offsets
\* 2, 3, 1 (offset 0 is not looked at), and to profile 1, the lowest
\* configured id, when none of the three bytes is a profile id; it is never
\* dropped.
C13_UserFromThreeOffsets == [][ AttributedByFirstOf(<<2, 3, 1>>) ]_vars

\* the latest frame carries id 1 at offset 2, id 2 at offset 3 and id 3 at
\* offset 1; user 1 got the reading and users 2 and 3 have none
C13_Witness ==
    /\ Len(data) >= 10
    /\ data[3] = 1 /\ data[4] = 2 /\ data[2] = 3
    /\ measurements[1].timestamp = clock /\ measurements[1].weight # 0
    /\ measurements[2].weight = 0 /\ measurements[3].weight = 0

\* a snapshot without its timestamp
Untimed(snap) == [snap EXCEPT !.timestamp = 0]

\* C14 as stated: decoding the frame that was decoded just before leaves the
\* store as it is.
C14_Idempotent == [][ data' = data => measurements' = measurements ]_vars

\* C14 as amended: decoding the frame that was decoded just before changes
\* no field of any user other than the timestamp of the user the frame is
\* attributed to, which is refreshed again.
C14_IdempotentButTimestamp ==
    [][ data' = data
        => \A u \in UserIds :
              /\ Untimed(measurements'[u]) = Untimed(measurements[u])
              /\ Refreshed(u) => WritesWeight(data', u) ]_vars

\* a 20-byte frame with a plausible weight has been decoded twice in
\* succession from the initial store
C14_Witness ==
    /\ clock = 2
    /\ Len(data) >= 20
    /\ \E u \in UserIds : WritesWeight(data, u) /\ measurements[u].timestamp = 2
    /\ measurements =
          ProcessNotification(ProcessNotification(InitialMeasurements, data, 1), data, 2)

\* frame d starts with the bytes 00 00 E7 02 00 00 00 2C 02 FF FF
IsScenarioFrame(d) == Len(d) >= 11 /\ SubSeq(d, 1, 11) = <<0, 0, 231, 2, 0, 0, 0, 44, 2, 255, 255>>

\* C15: a decode changes the snapshot of at most one user; a frame that
\* starts with 00 00 E7 02 00 00 00 2C 02 FF FF sets user 2's weight to 55.6,
\* bmi to 19.9 (height 167) and timestamp to now, and leaves every other
\* user untouched (the claim as stated).
C15_ScenarioFrame ==
    [][ /\ Cardinality({u \in UserIds : measurements'[u] # measurements[u]}) <= 1
        /\ IsScenarioFrame(data')
              => /\ measurements'[2].weight = 556
                 /\ measurements'[2].bmi = 199
                 /\ measurements'[2].timestamp = clock'
                 /\ \A u \in UserIds \ {2} : measurements'[u] = measurements[u] ]_vars

\* C18: a user for whom no frame has been decoded has 0 in every numeric
\* field (the claim as stated).
C18_DefaultsZero ==
    \A u \in UserIds :
        measurements[u].timestamp = 0
        => \A f \in NumericFields : measurements[u][f] = 0


----------------------------------------------------------------------------
(* Properties of the exchange on the link, checked on Spec.                *)

\* the queries among the payloads written by the latest cycle (the first
\* payload is the init command)
QueriesWritten == SubSeq(written, 2, Len(written))

\* the protocol's layout of a query
QueryBytes(id, male, age, heightCm) ==
    <<231, 65, id, IF male THEN 1 ELSE 0, age, heightCm, 3, 0, 0, 0>>

\* C16: every query written to the characteristic is the 10 bytes E7 41,
\* userId, genderByte (01 male, 00 female), age, heightCm, 03 00 00 00 of a
\* configured profile, and the query for profile 3 is
\* E7 41 03 01 15 B8 03 00 00 00.
C16_QueryCommandBytes ==
    \A i \in 1..Len(QueriesWritten) :
        LET q == QueriesWritten[i]
        IN  /\ Len(q) = 10
            /\ \E u \in UserIds :
                  q = QueryBytes(u, USER_PROFILES[u].gender = "male",
                                 USER_PROFILES[u].age, USER_PROFILES[u].height)
            /\ q[3] = 3 => q = <<231, 65, 3, 1, 21, 184, 3, 0, 0, 0>>
            /\ q[3] = 2 => q = <<231, 65, 2, 0, 53, 167, 3, 0, 0, 0>>

\* a session has written the init command and all four queries; the third
\* query is the one for profile 3
C16_Witness ==
    /\ \E t \in Callers : pc[t] = "stop_notify"
    /\ Len(written) = 5
    /\ written[4] = <<231, 65, 3, 1, 21, 184, 3, 0, 0, 0>>

\* C17 as stated: a value a caller obtained from async_update is not changed
\* by a later step of any cycle.
C17_ImmutableSnapshot ==
    [][ (\E t \in Callers : result[t] = "returned")
        => ReturnedMapping(measurements, measurements') = measurements ]_vars

\* C19: the queries of a session are written in roster order 1, 2, 3, 4,
\* each profile at most once and, in a session that reaches the unregister
\* step, exactly once; a query other than the first is written only by the
\* step that ends the delay after the previous query's completed write, and
\* once a write has failed the session writes nothing more.
C19_RosterOrder ==
    /\ [](/\ Len(QueriesWritten) <= 4
          /\ \A i \in 1..Len(QueriesWritten) : QueriesWritten[i][3] = i)
    /\ [](\A t \in Callers : pc[t] = "stop_notify" => Len(QueriesWritten) = 4)
    /\ [][ (Len(written') > Len(written) /\ Len(written) >= 1)
           => /\ Len(written') = Len(written) + 1
              /\ \E t \in Callers :
                    /\ pc[t] = IF Len(written) = 1 THEN "init_sleep" ELSE "query_sleep"
                    /\ pc'[t] = "query"
              /\ {"init_write", "query_write"} \cap failed = {} ]_vars
    /\ [][ ({"init_write", "query_write"} \cap failed # {})
           => Len(written') <= Len(written) ]_vars

\* the write of the query for profile 2 failed: the session is disconnecting
\* and has written the queries for profiles 1 and 2 only
C19_Witness ==
    /\ \E t \in Callers : pc[t] = "disconnect"
    /\ "query_write" \in failed
    /\ Len(QueriesWritten) = 2
    /\ QueriesWritten[2][3] = 2

\* the frames of buf from index i on, decoded one after the other
RECURSIVE DecodedInArrivalOrder(_, _, _, _)
DecodedInArrivalOrder(m, buf, i, now) ==
    IF i > Len(buf) THEN m
    ELSE DecodedInArrivalOrder(ProcessNotification(m, buf[i], now + 1), buf, i + 1, now + 1)

\* the step that ends the delay after the last query
ProcessingPass ==
    \E t \in Callers : pc[t] = "query_sleep" /\ pc'[t] = "stop_notify"

\* C20 as stated: a notification delivered to the registered handler of a
\* session is decoded into the store in the step that delivers it.
C20_AppliedOnDelivery ==
    [][ received' = received + 1
        => measurements' = ProcessNotification(measurements,
                               notification_buffer'[Len(notification_buffer')], clock + 1)
      ]_vars

\* C20 as amended: a delivered notification is appended to the buffer and
\* leaves the store as it is; the store changes only in the step that ends
\* the delay after the last query, which decodes the whole buffer in arrival
\* order, before the unregister step is started.
C20_BufferedThenInOrder ==
    /\ [][ delivered' = delivered + 1
           => /\ Len(notification_buffer') = Len(notification_buffer) + 1
              /\ SubSeq(notification_buffer', 1, Len(notification_buffer)) = notification_buffer
              /\ measurements' = measurements ]_vars
    /\ [][ measurements' # measurements => ProcessingPass ]_vars
    /\ [][ ProcessingPass
           => /\ measurements' = DecodedInArrivalOrder(measurements, notification_buffer, 1, clock)
              /\ notification_buffer' = notification_buffer
              /\ "unsubscribe" \notin ops ]_vars

\* two notifications, for user 3 and then for user 2, were buffered during
\* the queries and decoded in that order by the processing pass
C20_Witness ==
    /\ \E t \in Callers : pc[t] = "stop_notify"
    /\ Len(notification_buffer) = 2
    /\ UserId(notification_buffer[1]) = 3
    /\ UserId(notification_buffer[2]) = 2
    /\ measurements[3].timestamp = 1
    /\ measurements[2].timestamp = 2
    /\ measurements[2].weight = 556


----------------------------------------------------------------------------
(* Properties of the order of the session's steps, checked on Spec.        *)

\* C21 as stated (its distinguishing part): when the registration of the
\* notification handler is started, the init command has been written.
C21_InitBeforeRegister ==
    [][ ("subscribe" \in ops' /\ "subscribe" \notin ops)
        => (written # <<>> /\ written[1] = <<230, 1>>) ]_vars

\* C21 as amended: the handler is registered first; the first payload
\* written is the init command E6 01, and it and every query are written
\* while the handler is registered on a link that is up; all four queries
\* are written before the unregister step is started; nothing is written
\* once the unregister step or the release of the link has been started;
\* and the release is started after the unregister step, or after a failure.
C21_RegisterThenInit ==
    /\ [](written # <<>>
            => /\ written[1] = <<230, 1>>
               /\ "subscribe" \in ops
               /\ "start_notify" \notin failed)
    /\ []("unsubscribe" \in ops => Len(written) = 5)
    /\ [][ Len(written') > Len(written)
           => /\ \E t \in Callers :
                    /\ pc'[t] \in {"init", "query"}
                    /\ client'[t].connected /\ client'[t].notifying
              /\ ops \cap {"unsubscribe", "disconnect"} = {} ]_vars
    /\ [][ ("disconnect" \in ops' /\ "disconnect" \notin ops)
           => ("unsubscribe" \in ops \/ failed' # {}) ]_vars

\* the handler is registered and the write of the init command is in flight
C21_Witness ==
    \E t \in Callers :
        /\ pc[t] = "init"
        /\ client[t].notifying
        /\ written = << <<230, 1>> >>
        /\ notification_buffer = <<>>


\* C22 as stated: a failed write of the init command that leaves the link up
\* does not end the session, which goes on to the delay before the queries.
C22_InitFailureNotFatal ==
    [][ \A t \in Callers :
           (pc[t] = "init" /\ pc'[t] # "init" /\ client'[t].connected)
           => pc'[t] = "init_sleep" ]_vars

\* failures that make a session without a data path
NoDataPath == {"lookup", "start_notify"}

\* a cycle whose session found no service or characteristic, or could not
\* register its handler, returns in this step
ReturnsWithoutDataPath(t) ==
    Returns(t) /\ ~skipped'[t] /\ failed' \cap NoDataPath # {}

C24_FallbackRead ==
    \A t \in Callers :
        (/\ pc[t] = "disconnect"
         /\ "unsubscribe" \in ops /\ "stop_notify" \notin failed
         /\ received = 0 /\ notification_buffer = <<>>)
        => "read" \in ops


----------------------------------------------------------------------------
(* A further property of the decoder, checked on DecSpec.                  *)

\* body fat, water and muscle with their distance from the weight offset
FollowingFields == {<<"body_fat", 2>>, <<"water", 4>>, <<"muscle", 6>>}

\* C25 as stated: with the weight accepted at offset p, body fat, water and
\* muscle are left alone when p + 10 exceeds the frame length, and otherwise
\* a value that the decode newly stores in one of them is the little-endian
\* u16 at p + 2, p + 4, p + 6 respectively (a stored 0 stands for 'no value').
C25_ExtendedFollowsWeight ==
    [][ \A u \in UserIds :
           (Len(data') >= 10 /\ Refreshed(u))
           => LET p == AcceptedPos(data')
              IN  \A fk \in FollowingFields :
                     LET old == measurements[u][fk[1]]
                         new == measurements'[u][fk[1]]
                     IN  IF p + 10 > Len(data')
                         THEN new = old
                         ELSE (new # old /\ new # 0) => new = U16(data', p + fk[2])
      ]_vars


----------------------------------------------------------------------------
(* A further property of the notification buffer, checked on Spec.         *)

\* the step in which a session sets up its buffer and handler
HandlerSetup ==
    \E t \in Callers : pc[t] = "connect" /\ pc'[t] = "start_notify"

\* C26: every delivered notification is decoded at most once, a decode
\* happens only in the processing pass of a session and only for a
\* notification delivered since that session set up its handler, and the
\* buffer is empty after a session's setup: a frame left in the buffer by an
\* earlier session is never decoded by a later one.
C26_DecodedOnceInOwnSession ==
    /\ [](\A i \in DOMAIN decodes : decodes[i].count <= 1)
    /\ [][ \A i \in DOMAIN decodes :
              decodes'[i].count > decodes[i].count
              => /\ ProcessingPass
                 /\ decodes[i].count = 0
                 /\ ~decodes[i].stale ]_vars
    /\ [][ HandlerSetup => notification_buffer' = <<>> ]_vars

\* a first session failed with one frame in its buffer; the second session
\* received another frame and has made its processing pass, which decoded
\* the second frame only
C26_Witness ==
    /\ \E t \in Callers : pc[t] = "stop_notify"
    /\ Len(decodes) = 2
    /\ decodes[1] = [count |-> 0, stale |-> TRUE]
    /\ decodes[2] = [count |-> 1, stale |-> FALSE]
    /\ Len(notification_buffer) = 1

============================================================================
